---- MODULE Spec2Model ----
(***************************************************************************)
(* Model of src/app.py: the automation orchestration engine.               *)
(*                                                                         *)
(* The shared run state is the record `state` (app.py 58-72).  One worker  *)
(* thread runs automation_worker (app.py 444-644); its position is `pc`    *)
(* and its locals are the variables named as in the source.  The HTTP      *)
(* handlers start/stop/pause/resume (app.py 711-818) are actions that may  *)
(* interleave with every worker step; every worker step is one critical    *)
(* section (with state_lock) or one external call of the source.           *)
(*                                                                         *)
(* Spec keeps start requests apart: a start is accepted only when no worker *)
(* thread is alive.  SpecOverlap drops that and follows the threads that    *)
(* start requests spawn when only is_running is consulted, as in the        *)
(* source.  SpecFair adds the fair scheduling of the worker thread.         *)
(* SpecSession follows MobileSearcher.__enter__ resource by resource.       *)
(*                                                                         *)
(* Strings built with f-strings are pairs <<text, argument>>; a float      *)
(* (progress) is the exact rational <<numerator, denominator>>.            *)
(***************************************************************************)
EXTENDS Integers, Sequences, FiniteSets, TLC

\* ------------------------------------------------------------------ bounds
\* longest profile list a start request carries
MaxProfiles == 3
\* a short topic list (shorter than every quota)
SmallFruits == 3
\* a long topic list (longer than the level-1 quota)
LargeFruits == 11
\* largest value of the environment variable MOBILE_SEARCH_COUNT
MaxMobileCount == 2
\* longest base sequence and largest count given to _build_queries alone
MaxBase == 3
MaxCount == 5
\* number of worker threads that may be alive at once when starts overlap
MaxThreads == 2

\* ------------------------------------------------------- program constants
MAX_ACTIVE_BROWSERS == 2
QuotaLevel1 == 10
QuotaLevel2 == 32

\* ------------------------------------------------------------------ state
VARIABLES
  state,               \* the shared run state (dict `state`)
  _HAVE_PLAYWRIGHT,     \* import of playwright succeeded (fixed per process)
  MOBILE_SEARCH_COUNT, \* int(os.getenv("MOBILE_SEARCH_COUNT")) (fixed per process)
  pc,                  \* position of the worker thread; "idle": no thread
  fruits, profiles,    \* arguments of automation_worker
  browser,             \* argument of automation_worker
  pidx,                \* position of `profile` in `profiles` (for loop)
  name, desktop_total, \* locals of the profile iteration
  queries, qi,         \* desktop query list and position of `q` in it
  mqueries, mqi,       \* mobile query list and position of `mq` in it
  completed,           \* local counter of automation_worker
  browser_processes,   \* local list of tracked process handles
  completed_profiles,  \* local list of completed profile names
  oldest_process,      \* handle popped by the pool policy
  ti,                  \* position of `process` in browser_processes at teardown
  issued, counted,     \* history: desktop queries of the current profile, as set / as counted
  m_counted,           \* history: mobile queries of the current profile, as counted
  stop_seen,           \* history: a stop request was accepted in this run
  pause_counts,        \* history: counter updates since is_paused was last set
  act_outcome,         \* history: outcome of the latest native action or search of the current query
  observed_stop,       \* history: the worker has read is_running = False
  m_issued,            \* history: mobile queries of the current profile, as set
  pw_raised,           \* history: the Playwright path of the current profile raised
  mobile_path,         \* history: "playwright" once the session of the current profile has
                       \* ended without raising, "fallback" once its fallback has started
  td_pending,          \* history: positions of the handles teardown has not yet tried to terminate
  td_unkilled,         \* history: positions of the handles found alive after the grace wait, not killed
  td_raised,           \* history: a terminate() of the teardown raised
  ev_log,              \* history: the calls made on oldest_process by the pool policy in progress
  exit_log,            \* history: the calls made by the MobileSearcher.__exit__ that has just returned
  ms_open,             \* history: the resources a MobileSearcher of the current profile acquired
                       \* and no release was attempted for
  ctl_ignored,         \* history: a stop, pause or resume request arrived after the worker
                       \* of the last run had ended
  threads,             \* overlapping starts: position of each spawned worker thread
  start_response,      \* overlapping starts: the latest response of /api/start
  bq_base, bq_count, bq_out, bq_done  \* _build_queries checked alone

runVars == <<state, pc, fruits, profiles, browser, pidx, name, desktop_total, queries, qi,
             mqueries, mqi, completed, browser_processes, completed_profiles,
             oldest_process, ti, issued, counted, m_counted, stop_seen, pause_counts>>
envVars == <<_HAVE_PLAYWRIGHT, MOBILE_SEARCH_COUNT>>
bqVars == <<bq_base, bq_count, bq_out, bq_done>>
actVars == <<act_outcome>>
stopVars == <<observed_stop>>
mobVars == <<m_issued, pw_raised, mobile_path>>
tdVars == <<td_pending, td_unkilled, td_raised>>
evVars == <<ev_log>>
msVars == <<exit_log, ms_open>>
ctlVars == <<ctl_ignored>>
thrVars == <<threads, start_response>>
auxVars == <<actVars, stopVars, mobVars, tdVars, evVars, msVars, ctlVars, thrVars>>
vars == <<runVars, envVars, bqVars, auxVars>>

\* ------------------------------------------------------------ pure helpers
Min(a, b) == IF a <= b THEN a ELSE b
Max(a, b) == IF a >= b THEN a ELSE b

\* dict.setdefault / dict[k] = v
Put(f, k, v) == [x \in (DOMAIN f) \cup {k} |-> IF x = k THEN v ELSE f[x]]

EmptyDict == [x \in {} |-> 0]

\* the while loop of _build_queries: out.append(base[i % len(base)]); i += 1
RECURSIVE BuildLoop(_, _, _, _)
BuildLoop(base, count, out, i) ==
  IF Len(out) < count
    THEN BuildLoop(base, count, Append(out, base[(i % Len(base)) + 1]), i + 1)
    ELSE out

\* out[:count]
Take(s, n) == IF n <= 0 THEN <<>> ELSE SubSeq(s, 1, Min(n, Len(s)))

\* variant: the cycle restarts one element late
BuildQueriesOffByOne(base, count) ==
  IF base = <<>> THEN <<>> ELSE Take(BuildLoop(base, count, <<>>, 1), count)

_build_queries(base, count) ==
  IF base = <<>> THEN <<>> ELSE Take(BuildLoop(base, count, <<>>, 0), count)

\* ------------------------------------------------------------------ inputs
Topics == <<"t0", "t1", "t2", "t3", "t4", "t5", "t6", "t7", "t8", "t9", "t10", "t11", "t12">>

\* request field "fruits": a non-empty topic list (an empty one is rejected, 726-727)
FruitLists == {SubSeq(Topics, 1, n) : n \in {SmallFruits, LargeFruits}}

\* the value of a key that an entry of "selectedProfiles" does not have
NoName == "<no key>"

\* entries of "selectedProfiles"; "" stands for a None or empty value, NoName
\* for an entry without the key "name"
Entries ==
  { [name |-> "A", directory |-> "Profile 1"],
    [name |-> "B", directory |-> "Profile 2"],
    [name |-> "",  directory |-> "Default"],
    [name |-> NoName, directory |-> "Profile 3"] }

\* the profile lists requested: one entry repeated up to MaxProfiles times, and
\* the pairs of a named entry and a different entry, named or without a name key
ProfileLists ==
  { [i \in 1..n |-> e] : e \in Entries, n \in 1..MaxProfiles }
  \cup { p \in [1..2 -> Entries] : p[1].name \in {"A", "B"} /\ p[2].name # "" /\ p[1] # p[2] }

\* request field "browser": one that both launchers know, one that only
\* launch_browser knows, and one neither knows
Browsers == {"edge", "firefox", "lynx"}

\* 741-742: the profile used when none is resolved (directory None)
DefaultProfile == [name |-> "Default", directory |-> ""]

\* 731-742: the requested profiles count for chrome and edge only
ResolveProfiles(b, req) == IF b \in {"chrome", "edge"} THEN req ELSE <<DefaultProfile>>

\* the start requests: the long topic list comes with one profile
Requests ==
  { r \in [fruits : FruitLists, profiles : ProfileLists,
           mobileEnabled : BOOLEAN, browser : Browsers] :
      Len(r.fruits) > SmallFruits => Len(r.profiles) = 1 }

\* the hosts: <<_HAVE_PLAYWRIGHT, MOBILE_SEARCH_COUNT>>.  Both are read only
\* behind `mobile_enabled and ... MOBILE_SEARCH_COUNT > 0` (539, 550, 762), so a
\* host with MOBILE_SEARCH_COUNT = 0 behaves the same with and without Playwright
Hosts == {<<FALSE, 0>>, <<FALSE, MaxMobileCount>>, <<TRUE, MaxMobileCount>>}

\* the requests explored on a host: a request with mobile disabled runs the
\* same on every host, and is explored on the first one
RequestsOn(pw, count) == { r \in Requests : r.mobileEnabled \/ count = 0 }

\* launch_browser (204-251) returns a handle for the browsers it knows, else None
LaunchesDesktop(b) == b \in {"chrome", "edge", "firefox", "brave"}

\* launch_mobile_browser (253-299) returns a handle for chrome and edge, else None
LaunchesMobile(b) == b \in {"chrome", "edge"}

\* profile_info.json: the level stored for a profile (get_or_init_profile
\* gives level 1 to an unknown profile)
StoredLevel(n) == IF n = "B" THEN 2 ELSE 1

\* p.get("name") or p.get("directory") or "Default"
NameOf(p) ==
  IF p.name \notin {"", NoName} THEN p.name
  ELSE IF p.directory # "" THEN p.directory ELSE "Default"

\* variant: every level gets the level-1 quota
DesktopQuotaFlat(lvl) == QuotaLevel1

\* desktop_total = 10 if lvl == 1 else 32
DesktopQuota(lvl) == IF lvl = 1 THEN QuotaLevel1 ELSE QuotaLevel2

RECURSIVE SumQuota(_, _)
SumQuota(ps, i) ==
  IF i > Len(ps) THEN 0
  ELSE DesktopQuota(StoredLevel(NameOf(ps[i]))) + SumQuota(ps, i + 1)

\* (completed / total) * 100.0 with total = max(1, state["total"])
ProgressOf(c, t) == <<c * 100, Max(1, t)>>

\* variant: the increment is not clamped
ClampIncNoMin(e) == [e EXCEPT !.done = e.done + 1]

\* variant: an increment past total starts again from zero
ClampIncWraps(e) == [e EXCEPT !.done = (e.done + 1) % (e.total + 1)]

\* variant: the clamp is one below total
ClampIncBelow(e) == [e EXCEPT !.done = Min(e.done + 1, e.total - 1)]

\* pp[name]["done"] = min(pp[name]["done"] + 1, pp[name]["total"])
ClampInc(e) == [e EXCEPT !.done = Min(e.done + 1, e.total)]

\* variant: the poll looks at the pause flag alone
WaitReturnsPausedOnly(paused, running) == ~paused

\* variant: the poll never waits
WaitReturnsAlways(paused, running) == TRUE

\* _wait_if_paused / sleep_with_pause return at a poll that finds
\* `not running or not paused`; otherwise they sleep and poll again
WaitReturns(paused, running) == ~running \/ ~paused

Unblocked == WaitReturns(state.is_paused, state.is_running)

\* ------------------------------------------------------------------- Init
InitState ==
  [ is_running |-> FALSE, status |-> <<"Ready", "">>, progress |-> <<0, 1>>,
    current_search |-> <<"", "">>, current_profile |-> "",
    completed |-> 0, total |-> 0, is_paused |-> FALSE,
    profile_progress |-> EmptyDict, profile_eligibility |-> EmptyDict,
    mobile_enabled |-> FALSE, mobile_progress |-> EmptyDict ]

InitRun ==
  /\ state = InitState
  /\ pc = "idle"
  /\ fruits = <<>> /\ profiles = <<>> /\ browser = "" /\ pidx = 0
  /\ name = "" /\ desktop_total = 0
  /\ queries = <<>> /\ qi = 0 /\ mqueries = <<>> /\ mqi = 0
  /\ completed = 0
  /\ browser_processes = <<>> /\ completed_profiles = <<>>
  /\ oldest_process = <<>> /\ ti = 0
  /\ issued = <<>> /\ counted = <<>> /\ m_counted = <<>>
  /\ stop_seen = FALSE /\ pause_counts = 0
  /\ act_outcome = "none" /\ observed_stop = FALSE
  /\ m_issued = <<>> /\ pw_raised = FALSE /\ mobile_path = "none"
  /\ td_pending = {} /\ td_unkilled = {} /\ td_raised = FALSE
  /\ ev_log = <<>> /\ exit_log = <<>> /\ ms_open = {}
  /\ ctl_ignored = FALSE
  /\ threads = [i \in 1..MaxThreads |-> "none"]
  /\ start_response = "none"

InitBq == bq_base = <<>> /\ bq_count = 0 /\ bq_out = <<>> /\ bq_done = FALSE

Init ==
  /\ InitRun
  /\ InitBq
  /\ \E h \in Hosts : _HAVE_PLAYWRIGHT = h[1] /\ MOBILE_SEARCH_COUNT = h[2]

\* ------------------------------------------------------ control requests
\* 745-774: the run state a start request writes for the profiles ps and the
\* flag mobile_enabled m
SeedState(ps, m) ==
  LET names == {NameOf(ps[i]) : i \in DOMAIN ps}
      mobile_ok(n) == StoredLevel(n) = 2
  IN [state EXCEPT
        !.is_running = TRUE,
        !.status = <<"Starting automation...", "">>,
        !.progress = <<0, 1>>,
        !.completed = 0,
        !.total = SumQuota(ps, 1),
        !.is_paused = FALSE,
        !.profile_progress =
           [n \in names |-> [done |-> 0, total |-> DesktopQuota(StoredLevel(n))]],
        !.profile_eligibility = [n \in names |-> [mobile |-> mobile_ok(n)]],
        !.mobile_enabled = m,
        !.mobile_progress =
           [n \in {x \in names : m /\ mobile_ok(x) /\ MOBILE_SEARCH_COUNT > 0}
              |-> [done |-> 0, total |-> MOBILE_SEARCH_COUNT]] ]

\* POST /api/start (711-794), accepted while no worker thread is alive: seeds
\* the run state and spawns the worker
start_automation ==
  /\ ~state.is_running
  /\ pc = "idle"
  /\ \E r \in RequestsOn(_HAVE_PLAYWRIGHT, MOBILE_SEARCH_COUNT) :
       LET ps == ResolveProfiles(r.browser, r.profiles)
       IN
       /\ state' = SeedState(ps, r.mobileEnabled)
       /\ fruits' = r.fruits
       /\ profiles' = ps
       /\ browser' = r.browser
  /\ pc' = "loop"
  /\ pidx' = 1
  /\ completed' = 0
  /\ browser_processes' = <<>>
  /\ completed_profiles' = <<>>
  /\ name' = "" /\ desktop_total' = 0
  /\ queries' = <<>> /\ qi' = 0 /\ mqueries' = <<>> /\ mqi' = 0
  /\ oldest_process' = <<>> /\ ti' = 0
  /\ issued' = <<>> /\ counted' = <<>> /\ m_counted' = <<>>
  /\ stop_seen' = FALSE /\ pause_counts' = 0
  /\ act_outcome' = "none" /\ observed_stop' = FALSE
  /\ m_issued' = <<>> /\ pw_raised' = FALSE /\ mobile_path' = "none"
  /\ td_pending' = {} /\ td_unkilled' = {} /\ td_raised' = FALSE
  /\ ev_log' = <<>> /\ exit_log' = <<>> /\ ms_open' = {}
  /\ ctl_ignored' = FALSE
  /\ UNCHANGED <<envVars, bqVars, thrVars>>

workerVars == <<pc, fruits, profiles, browser, pidx, name, desktop_total, queries, qi,
                mqueries, mqi, completed, browser_processes, completed_profiles,
                oldest_process, ti, issued, counted, m_counted>>

\* POST /api/stop (796-802)
stop_automation ==
  /\ state.is_running
  /\ state' = [state EXCEPT !.is_running = FALSE,
                            !.status = <<"Stopping automation...", "">>]
  /\ stop_seen' = TRUE
  /\ UNCHANGED <<workerVars, pause_counts, envVars, bqVars, auxVars>>

\* variant: the handler does not look at is_running
pause_automation_unguarded ==
  /\ state' = [state EXCEPT !.is_paused = TRUE, !.status = <<"Paused", "">>]
  /\ pause_counts' = IF state.is_paused THEN pause_counts ELSE 0
  /\ UNCHANGED <<workerVars, stop_seen, envVars, bqVars, auxVars>>

\* POST /api/pause (804-810)
pause_automation ==
  /\ state.is_running
  /\ state' = [state EXCEPT !.is_paused = TRUE, !.status = <<"Paused", "">>]
  /\ pause_counts' = IF state.is_paused THEN pause_counts ELSE 0
  /\ UNCHANGED <<workerVars, stop_seen, envVars, bqVars, auxVars>>

\* POST /api/resume (812-818)
resume_automation ==
  /\ state.is_running
  /\ state' = [state EXCEPT !.is_paused = FALSE, !.status = <<"Resuming...", "">>]
  /\ pause_counts' = 0
  /\ UNCHANGED <<workerVars, stop_seen, envVars, bqVars, auxVars>>

\* a stop, pause or resume request while no run is active: the handler's
\* `if state["is_running"]` is false and nothing is written
control_noop ==
  /\ ~state.is_running
  /\ ctl_ignored' = (ctl_ignored \/ (pc = "idle" /\ profiles # <<>>))
  /\ UNCHANGED <<state, workerVars, stop_seen, pause_counts, envVars, bqVars,
                 actVars, stopVars, mobVars, tdVars, evVars, msVars, thrVars>>

\* ------------------------------------------------------------ the worker
\* variables no worker step writes
fixedVars == <<fruits, profiles, browser, stop_seen, envVars, bqVars>>
loopVars == <<pidx, name, desktop_total, queries, qi, mqueries, mqi>>
poolVars == <<browser_processes, completed_profiles, oldest_process, ti>>
histVars == <<issued, counted, m_counted>>

\* outcomes of a native input action (pyautogui): done, an ordinary exception,
\* or FailSafeException (a subclass of Exception)
ActOutcomes == {"ok", "error", "failsafe"}

\* a worker step that only moves on
Goto(from, to) ==
  /\ pc = from
  /\ pc' = to
  /\ UNCHANGED <<state, loopVars, completed, poolVars, histVars, pause_counts, fixedVars, auxVars>>

\* variant: a sleep that waits for a resume even when the run is stopped
SleepNeedsResume(from, to) == ~state.is_paused /\ Goto(from, to)

\* sleep_with_pause(seconds) (320-328) and _wait_if_paused() (311-318): the
\* call returns at a poll that finds the run stopped or not paused
Sleep(from, to) == Unblocked /\ Goto(from, to)

\* variant: an exception of a native input action ends the run
NativeActAborts(from, okTo, failTo) ==
  /\ pc = from
  /\ \E o \in ActOutcomes :
       /\ pc' = IF o = "ok" THEN okTo ELSE "except"
       /\ act_outcome' = o
  /\ UNCHANGED <<state, loopVars, completed, poolVars, histVars, pause_counts, fixedVars,
                 stopVars, mobVars, tdVars, evVars, msVars, ctlVars, thrVars>>

\* one pyautogui call inside `try: ... except Exception` (487-493, 605-611)
NativeAct(from, okTo, failTo) ==
  /\ pc = from
  /\ \E o \in ActOutcomes :
       /\ pc' = IF o = "ok" THEN okTo ELSE failTo
       /\ act_outcome' = o
  /\ UNCHANGED <<state, loopVars, completed, poolVars, histVars, pause_counts, fixedVars,
                 stopVars, mobVars, tdVars, evVars, msVars, ctlVars, thrVars>>

\* updates counted while the run is paused (history)
PauseCounts == IF state.is_paused /\ state.is_running THEN pause_counts + 1 ELSE pause_counts

\* 628-629: the `finally` block starts the loop over the tracked handles
EnterTeardown ==
  /\ pc' = "td"
  /\ ti' = 1
  /\ td_pending' = 1..Len(browser_processes)
  /\ UNCHANGED <<td_unkilled, td_raised>>

\* 454-461: next profile of the for loop, or leave the loop; profile["name"]
\* of an entry without that key raises KeyError
profile_next ==
  /\ pc = "loop"
  /\ IF pidx > Len(profiles)
       THEN EnterTeardown /\ UNCHANGED <<name, observed_stop>>
       ELSE IF ~state.is_running
         THEN EnterTeardown /\ observed_stop' = TRUE /\ name' = name
         ELSE IF profiles[pidx].name = NoName
           THEN pc' = "except" /\ UNCHANGED <<name, ti, tdVars, observed_stop>>
           ELSE pc' = "open" /\ name' = profiles[pidx].name
                /\ UNCHANGED <<ti, tdVars, observed_stop>>
  /\ UNCHANGED <<state, pidx, desktop_total, queries, qi, mqueries, mqi, completed,
                 browser_processes, completed_profiles, oldest_process,
                 histVars, pause_counts, fixedVars, actVars, mobVars, evVars, ctlVars, thrVars>>
  /\ exit_log' = <<>> /\ ms_open' = ms_open

\* variant: an exception that left the profile loop skips the `finally` block
worker_except_skips_finally ==
  /\ pc = "except"
  /\ pc' = "td_wrapper"
  /\ UNCHANGED <<state, loopVars, completed, poolVars, histVars, pause_counts, fixedVars, auxVars>>

\* 624-627: an exception that left the profile loop is printed, then `finally`
worker_except ==
  /\ pc = "except"
  /\ EnterTeardown
  /\ UNCHANGED <<state, loopVars, completed, browser_processes, completed_profiles,
                 oldest_process, histVars, pause_counts, fixedVars,
                 actVars, stopVars, mobVars, evVars, msVars, ctlVars, thrVars>>

\* 464-468
profile_open ==
  /\ pc = "open"
  /\ state' = [state EXCEPT !.current_profile = name,
                            !.status = <<"Opening browser for profile: ", name>>]
  /\ desktop_total' = IF name \in DOMAIN state.profile_progress
                        THEN state.profile_progress[name].total
                        ELSE Len(fruits)
  /\ issued' = <<>> /\ counted' = <<>> /\ m_counted' = <<>>
  /\ m_issued' = <<>> /\ pw_raised' = FALSE /\ mobile_path' = "none"
  /\ ms_open' = {}
  /\ pc' = "launch"
  /\ UNCHANGED <<pidx, name, queries, qi, mqueries, mqi, completed, poolVars,
                 pause_counts, fixedVars, exit_log, actVars, stopVars, tdVars, evVars,
                 ctlVars, thrVars>>

\* 470-472: proc = launch_browser(browser, directory); if proc: append
launch_desktop ==
  /\ pc = "launch"
  /\ browser_processes' = IF LaunchesDesktop(browser)
                            THEN Append(browser_processes, <<pidx, "desktop">>)
                            ELSE browser_processes
  /\ pc' = "settle"
  /\ UNCHANGED <<state, loopVars, completed, completed_profiles, oldest_process, ti,
                 histVars, pause_counts, fixedVars, auxVars>>

\* 473-475: sleep_with_pause(3); queries = _build_queries(fruits, desktop_total)
settle ==
  /\ pc = "settle"
  /\ Unblocked
  /\ queries' = _build_queries(fruits, desktop_total)
  /\ qi' = 1
  /\ pc' = "d_wait"
  /\ UNCHANGED <<state, pidx, name, desktop_total, mqueries, mqi, completed, poolVars,
                 histVars, pause_counts, fixedVars, auxVars>>

\* 476-477: for q in queries: _wait_if_paused()
d_wait ==
  /\ pc = "d_wait"
  /\ IF qi > Len(queries) THEN pc' = "post" ELSE Unblocked /\ pc' = "d_check"
  /\ UNCHANGED <<state, loopVars, completed, poolVars, histVars, pause_counts, fixedVars, auxVars>>

\* variant: a pause ends the query loop like a stop
d_check_break_on_pause ==
  /\ pc = "d_check"
  /\ pc' = IF state.is_running /\ ~state.is_paused THEN "d_set" ELSE "post"
  /\ observed_stop' = (observed_stop \/ ~state.is_running)
  /\ UNCHANGED <<state, loopVars, completed, poolVars, histVars, pause_counts, fixedVars,
                 actVars, mobVars, tdVars, evVars, msVars, ctlVars, thrVars>>

\* 478-481: if not running: break
d_check ==
  /\ pc = "d_check"
  /\ pc' = IF state.is_running THEN "d_set" ELSE "post"
  /\ observed_stop' = (observed_stop \/ ~state.is_running)
  /\ UNCHANGED <<state, loopVars, completed, poolVars, histVars, pause_counts, fixedVars,
                 actVars, mobVars, tdVars, evVars, msVars, ctlVars, thrVars>>

\* 483-485
d_set ==
  /\ pc = "d_set"
  /\ state' = [state EXCEPT !.current_search = <<queries[qi], "">>,
                            !.status = <<"Searching for: ", queries[qi]>>]
  /\ issued' = Append(issued, queries[qi])
  /\ pc' = "d_act1"
  /\ UNCHANGED <<loopVars, completed, poolVars, counted, m_counted, pause_counts, fixedVars, auxVars>>

\* 487-493: new tab, address bar, type, enter; each sleep is interruptible
d_act ==
  \/ NativeAct("d_act1", "d_sl1", "d_count")
  \/ NativeAct("d_act2", "d_sl2", "d_count")
  \/ NativeAct("d_act3", "d_sl3", "d_count")
  \/ NativeAct("d_act4", "d_count", "d_count")

d_act_sleep ==
  \/ Sleep("d_sl1", "d_act2")
  \/ Sleep("d_sl2", "d_act3")
  \/ Sleep("d_sl3", "d_act4")

\* 495-507: the counters of the desktop query
d_count ==
  /\ pc = "d_count"
  /\ completed' = completed + 1
  /\ state' = [state EXCEPT
       !.completed = completed + 1,
       !.progress = ProgressOf(completed + 1, state.total),
       !.profile_progress =
          LET pp == state.profile_progress
          IN IF name \in DOMAIN pp THEN [pp EXCEPT ![name] = ClampInc(pp[name])] ELSE pp ]
  /\ counted' = Append(counted, queries[qi])
  /\ pause_counts' = PauseCounts
  /\ pc' = "d_sleep"
  /\ UNCHANGED <<loopVars, poolVars, issued, m_counted, fixedVars, auxVars>>

\* 509: sleep_with_pause(max(0.1, delay + random)), then the next q
d_sleep ==
  /\ pc = "d_sleep"
  /\ Unblocked
  /\ qi' = qi + 1
  /\ act_outcome' = "none"
  /\ pc' = "d_wait"
  /\ UNCHANGED <<state, pidx, name, desktop_total, queries, mqueries, mqi, completed,
                 poolVars, histVars, pause_counts, fixedVars,
                 stopVars, mobVars, tdVars, evVars, msVars, ctlVars, thrVars>>

\* variant: the policy evicts as soon as the cap is reached
OverCapFromCap(cp) == Len(cp) >= MAX_ACTIVE_BROWSERS

\* len(completed_profiles) > MAX_ACTIVE_BROWSERS
OverCap(cp) == Len(cp) > MAX_ACTIVE_BROWSERS

\* 511-518: completed_profiles.append(name); over the cap, pop the oldest handle
post ==
  /\ pc = "post"
  /\ completed_profiles' = Append(completed_profiles, name)
  /\ IF OverCap(Append(completed_profiles, name))
       THEN IF browser_processes # <<>>
              THEN /\ oldest_process' = Head(browser_processes)
                   /\ browser_processes' = Tail(browser_processes)
                   /\ pc' = "ev_term"
              ELSE /\ pc' = "ev_pop"
                   /\ UNCHANGED <<oldest_process, browser_processes>>
       ELSE /\ pc' = "m_elig"
            /\ UNCHANGED <<oldest_process, browser_processes>>
  /\ UNCHANGED <<state, loopVars, completed, ti, histVars, pause_counts, fixedVars, auxVars>>

\* 519-524: oldest_process.terminate() may raise (swallowed)
ev_term ==
  /\ pc = "ev_term"
  /\ \E raised \in BOOLEAN :
       /\ pc' = IF raised THEN "ev_pop" ELSE "ev_sleep"
       /\ ev_log' = Append(ev_log, IF raised THEN "terminate raised" ELSE "terminate")
  /\ UNCHANGED <<state, loopVars, completed, poolVars, histVars, pause_counts, fixedVars,
                 actVars, stopVars, mobVars, tdVars, msVars, ctlVars, thrVars>>

\* outcomes of process.poll(): an exit code, None (still alive), an exception
PollOutcomes == {"exited", "alive", "raised"}

\* 521-522: if oldest_process.poll() is None: oldest_process.kill(); an
\* exception of either call is swallowed (523-524)
ev_poll ==
  /\ pc = "ev_poll"
  /\ \E o \in PollOutcomes :
       ev_log' = IF o = "alive" THEN ev_log \o <<"poll alive", "kill">>
                 ELSE Append(ev_log, IF o = "exited" THEN "poll exited" ELSE "poll raised")
  /\ pc' = "ev_pop"
  /\ UNCHANGED <<state, loopVars, completed, poolVars, histVars, pause_counts, fixedVars,
                 actVars, stopVars, mobVars, tdVars, msVars, ctlVars, thrVars>>

\* 520-522: sleep_with_pause(0.5); poll; kill
ev_kill ==
  \/ Sleep("ev_sleep", "ev_poll")
  \/ ev_poll

\* 525: completed_profiles.pop(0)
ev_pop ==
  /\ pc = "ev_pop"
  /\ completed_profiles' = Tail(completed_profiles)
  /\ pc' = "ev_sleep2"
  /\ UNCHANGED <<state, loopVars, completed, browser_processes, oldest_process, ti,
                 histVars, pause_counts, fixedVars, auxVars>>

\* 526: sleep_with_pause(2)
ev_sleep2 == Sleep("ev_sleep2", "ev_status")

\* 527-528
ev_status ==
  /\ pc = "ev_status"
  /\ state' = [state EXCEPT !.status = <<"Freed memory, continuing with ", name>>]
  /\ ev_log' = <<>>
  /\ pc' = "m_elig"
  /\ UNCHANGED <<loopVars, completed, poolVars, histVars, pause_counts, fixedVars,
                 actVars, stopVars, mobVars, tdVars, msVars, ctlVars, thrVars>>

\* the generic queries used when _build_queries gives none (547-548)
GenericQueries ==
  <<"weather today", "top news", "sports scores", "nearby restaurants", "time now">>

\* variant: the mobile pass is skipped when Playwright is unavailable
MobileOkNeedsPlaywright(enabled, elig, count) ==
  enabled /\ elig /\ count > 0 /\ _HAVE_PLAYWRIGHT

\* variant: the eligibility of the profile is not consulted
MobileOkAnyLevel(enabled, elig, count) == enabled /\ count > 0

\* mobile_ok = mobile_enabled and bool(elig.get("mobile")) and MOBILE_SEARCH_COUNT > 0
MobileOk(enabled, elig, count) == enabled /\ elig /\ count > 0

\* 533-548: the eligibility gate; seeds mobile_progress and builds mqueries
m_elig ==
  /\ pc = "m_elig"
  /\ LET el == state.profile_eligibility
         elig == name \in DOMAIN el /\ el[name].mobile
         mq == _build_queries(fruits, MOBILE_SEARCH_COUNT)
     IN IF ~MobileOk(state.mobile_enabled, elig, MOBILE_SEARCH_COUNT)
          THEN /\ pidx' = pidx + 1
               /\ pc' = "loop"
               /\ UNCHANGED <<state, mqueries, mqi>>
          ELSE /\ state' = [state EXCEPT !.mobile_progress =
                    IF name \in DOMAIN @ THEN @
                    ELSE Put(@, name, [done |-> 0, total |-> MOBILE_SEARCH_COUNT])]
               /\ mqueries' = IF mq = <<>> THEN GenericQueries ELSE mq
               /\ mqi' = 1
               /\ pc' = IF _HAVE_PLAYWRIGHT THEN "pw_status" ELSE "fb_status"
               /\ pidx' = pidx
  /\ UNCHANGED <<name, desktop_total, queries, qi, completed, poolVars, histVars,
                 pause_counts, fixedVars, auxVars>>

\* 552-553
pw_status ==
  /\ pc = "pw_status"
  /\ state' = [state EXCEPT !.status = <<"Opening Playwright mobile for: ", name>>]
  /\ pc' = "pw_enter"
  /\ UNCHANGED <<loopVars, completed, poolVars, histVars, pause_counts, fixedVars, auxVars>>

\* the resources of a MobileSearcher, in the order __enter__ acquires them
\* (354 the runtime, 356 the browser, 357-362 the context)
SessionResources == <<"playwright", "browser", "context">>

\* the outcomes of MobileSearcher(profile=name).__enter__() (342-364): the
\* constructor or sync_playwright().start() raises (nothing acquired), a later
\* call raises after the first n resources were acquired (355-356, 357-362,
\* 363), or it returns with all of them
MobileEnter ==
  { [acquired |-> {SessionResources[i] : i \in 1..n}, raised |-> TRUE] :
      n \in 0..Len(SessionResources) }
  \cup { [acquired |-> {SessionResources[i] : i \in 1..Len(SessionResources)},
          raised |-> FALSE] }

\* variant: a failure to open the Playwright session ends the run
pw_enter_aborts ==
  /\ pc = "pw_enter"
  /\ \E raised \in BOOLEAN :
       /\ pc' = IF raised THEN "except" ELSE "pw_wait"
       /\ pw_raised' = raised
  /\ UNCHANGED <<state, loopVars, completed, poolVars, histVars, pause_counts, fixedVars,
                 m_issued, mobile_path, actVars, stopVars, tdVars, evVars, msVars, ctlVars, thrVars>>

\* 554, 351-364: MobileSearcher.__enter__ returns or raises (581-582: fallback)
pw_enter ==
  /\ pc = "pw_enter"
  /\ \E raised \in BOOLEAN :
       /\ pc' = IF raised THEN "fb_status" ELSE "pw_wait"
       /\ pw_raised' = raised
  /\ UNCHANGED <<state, loopVars, completed, poolVars, histVars, pause_counts, fixedVars,
                 m_issued, mobile_path, actVars, stopVars, tdVars, evVars, msVars, ctlVars, thrVars>>

\* 554, 342-364, with the resources __enter__ holds when it returns or raises;
\* when it raises, the `with` statement does not call __exit__ and the
\* handler at 581-582 goes on to the fallback
pw_enter_acquire ==
  /\ pc = "pw_enter"
  /\ \E o \in MobileEnter :
       /\ pc' = IF o.raised THEN "fb_status" ELSE "pw_wait"
       /\ pw_raised' = o.raised
       /\ ms_open' = o.acquired
  /\ UNCHANGED <<state, loopVars, completed, poolVars, histVars, pause_counts, fixedVars,
                 m_issued, mobile_path, exit_log, actVars, stopVars, tdVars, evVars, ctlVars,
                 thrVars>>

\* 555-556
pw_wait ==
  /\ pc = "pw_wait"
  /\ IF mqi > Len(mqueries) THEN pc' = "pw_exit" ELSE Unblocked /\ pc' = "pw_check"
  /\ UNCHANGED <<state, loopVars, completed, poolVars, histVars, pause_counts, fixedVars, auxVars>>

\* 557-560
pw_check ==
  /\ pc = "pw_check"
  /\ pc' = IF state.is_running THEN "pw_set" ELSE "pw_exit"
  /\ observed_stop' = (observed_stop \/ ~state.is_running)
  /\ UNCHANGED <<state, loopVars, completed, poolVars, histVars, pause_counts, fixedVars,
                 actVars, mobVars, tdVars, evVars, msVars, ctlVars, thrVars>>

\* the status fields of a mobile query (562-564, 601-603)
MobileSet(from, to) ==
  /\ pc = from
  /\ state' = [state EXCEPT !.current_search = <<mqueries[mqi], "[m]">>,
                            !.status = <<"Mobile searching: ", mqueries[mqi]>>]
  /\ m_issued' = Append(m_issued, mqueries[mqi])
  /\ pc' = to
  /\ UNCHANGED <<loopVars, completed, poolVars, histVars, pause_counts, fixedVars,
                 pw_raised, mobile_path, actVars, stopVars, tdVars, evVars, msVars, ctlVars, thrVars>>

\* variant: a mobile query is also counted in completed and progress
MobileCountInTotals(from, to) ==
  /\ pc = from
  /\ completed' = completed + 1
  /\ state' = [state EXCEPT
       !.completed = completed + 1,
       !.progress = ProgressOf(completed + 1, state.total),
       !.mobile_progress =
          LET mp == IF name \in DOMAIN @ THEN @
                    ELSE Put(@, name, [done |-> 0, total |-> MOBILE_SEARCH_COUNT])
          IN [mp EXCEPT ![name] = ClampInc(mp[name])] ]
  /\ m_counted' = Append(m_counted, mqueries[mqi])
  /\ pause_counts' = PauseCounts
  /\ pc' = to
  /\ UNCHANGED <<loopVars, poolVars, issued, counted, fixedVars, auxVars>>

\* the counter of a mobile query (571-579, 613-621)
MobileCount(from, to) ==
  /\ pc = from
  /\ state' = [state EXCEPT !.mobile_progress =
       LET mp == IF name \in DOMAIN @ THEN @
                 ELSE Put(@, name, [done |-> 0, total |-> MOBILE_SEARCH_COUNT])
       IN [mp EXCEPT ![name] = ClampInc(mp[name])] ]
  /\ m_counted' = Append(m_counted, mqueries[mqi])
  /\ pause_counts' = PauseCounts
  /\ pc' = to
  /\ UNCHANGED <<loopVars, completed, poolVars, issued, counted, fixedVars, auxVars>>

\* the pause between two mobile queries (580, 622), then the next mq
MobileSleep(from, to) ==
  /\ pc = from
  /\ Unblocked
  /\ mqi' = mqi + 1
  /\ act_outcome' = "none"
  /\ pc' = to
  /\ UNCHANGED <<state, pidx, name, desktop_total, queries, qi, mqueries, completed,
                 poolVars, histVars, pause_counts, fixedVars,
                 stopVars, mobVars, tdVars, evVars, msVars, ctlVars, thrVars>>

pw_set == MobileSet("pw_set", "pw_search")

\* 566-569: mobile.search raises or not; either way the loop goes on
pw_search ==
  /\ pc = "pw_search"
  /\ \E raised \in BOOLEAN : act_outcome' = IF raised THEN "error" ELSE "ok"
  /\ pc' = "pw_count"
  /\ UNCHANGED <<state, loopVars, completed, poolVars, histVars, pause_counts, fixedVars,
                 stopVars, mobVars, tdVars, evVars, msVars, ctlVars, thrVars>>

pw_count == MobileCount("pw_count", "pw_sleep")

pw_sleep == MobileSleep("pw_sleep", "pw_wait")

\* variant: the for loop runs the same profile again
NextProfileAgain(from) ==
  /\ pc = from
  /\ pc' = "open"
  /\ UNCHANGED <<state, loopVars, completed, poolVars, histVars, pause_counts, fixedVars, auxVars>>

\* the end of a profile iteration: the for loop takes the next profile
NextProfile(from) ==
  /\ pc = from
  /\ pidx' = pidx + 1
  /\ pc' = "loop"
  /\ UNCHANGED <<state, name, desktop_total, queries, qi, mqueries, mqi, completed,
                 poolVars, histVars, pause_counts, fixedVars, auxVars>>

\* the calls of MobileSearcher.__exit__ on an open session, in source order
ExitCalls == <<"storage_state", "context.close", "browser.close", "playwright.stop">>

\* variant: the releases share one try block; the first one that raises ends
\* the close, which raises
MobileExitOneTry(raises) ==
  LET bad == {i \in raises : i > 1}
      last == IF bad = {} THEN Len(ExitCalls) ELSE CHOOSE i \in bad : \A j \in bad : i <= j
  IN [log |-> [i \in 1..last |-> <<ExitCalls[i], i \in raises>>], raised |-> bad # {}]

\* MobileSearcher.__exit__ (365-378) on an open session, `raises` being the
\* calls that raise: each call sits in a try of its own with a bare except
MobileExit(raises) ==
  [log |-> [i \in 1..Len(ExitCalls) |-> <<ExitCalls[i], i \in raises>>], raised |-> FALSE]

\* the resources whose release is among the calls of a close
Released(log) ==
  {res \in {"playwright", "browser", "context"} :
     \E i \in 1..Len(log) :
       log[i][1] = (CASE res = "context" -> "context.close"
                      [] res = "browser" -> "browser.close"
                      [] OTHER -> "playwright.stop")}

\* 365-378, 581-584: MobileSearcher.__exit__; an exception of it would be
\* caught at 581, otherwise `else: continue`
pw_exit ==
  /\ pc = "pw_exit"
  /\ \E raises \in SUBSET (1..Len(ExitCalls)) :
       LET r == MobileExit(raises)
       IN /\ exit_log' = r.log
          /\ ms_open' = ms_open \ Released(r.log)
          /\ IF r.raised
               THEN /\ pc' = "fb_status" /\ pidx' = pidx
                    /\ pw_raised' = TRUE /\ mobile_path' = mobile_path
               ELSE /\ pc' = "loop" /\ pidx' = pidx + 1
                    /\ pw_raised' = pw_raised /\ mobile_path' = "playwright"
  /\ UNCHANGED <<state, name, desktop_total, queries, qi, mqueries, mqi, completed,
                 poolVars, histVars, pause_counts, fixedVars,
                 m_issued, actVars, stopVars, tdVars, evVars, ctlVars, thrVars>>

\* 587-588
fb_status ==
  /\ pc = "fb_status"
  /\ state' = [state EXCEPT !.status = <<"Opening browser (mobile UA) for profile: ", name>>]
  /\ mobile_path' = "fallback"
  /\ pc' = "fb_launch"
  /\ UNCHANGED <<loopVars, completed, poolVars, histVars, pause_counts, fixedVars,
                 m_issued, pw_raised, actVars, stopVars, tdVars, evVars, msVars, ctlVars, thrVars>>

\* 589-591: mproc = launch_mobile_browser(browser, directory); if mproc: append
fb_launch ==
  /\ pc = "fb_launch"
  /\ browser_processes' = IF LaunchesMobile(browser)
                            THEN Append(browser_processes, <<pidx, "mobile">>)
                            ELSE browser_processes
  /\ pc' = "fb_settle"
  /\ UNCHANGED <<state, loopVars, completed, completed_profiles, oldest_process, ti,
                 histVars, pause_counts, fixedVars, auxVars>>

\* 592: sleep_with_pause(3)
fb_settle == Sleep("fb_settle", "fb_wait")

\* 594-595
fb_wait ==
  /\ pc = "fb_wait"
  /\ IF mqi > Len(mqueries) THEN pc' = "fb_end" ELSE Unblocked /\ pc' = "fb_check"
  /\ UNCHANGED <<state, loopVars, completed, poolVars, histVars, pause_counts, fixedVars, auxVars>>

\* 596-599
fb_check ==
  /\ pc = "fb_check"
  /\ pc' = IF state.is_running THEN "fb_set" ELSE "fb_end"
  /\ observed_stop' = (observed_stop \/ ~state.is_running)
  /\ UNCHANGED <<state, loopVars, completed, poolVars, histVars, pause_counts, fixedVars,
                 actVars, mobVars, tdVars, evVars, msVars, ctlVars, thrVars>>

fb_set == MobileSet("fb_set", "fb_act1")

\* 605-611
fb_act ==
  \/ NativeAct("fb_act1", "fb_sl1", "fb_count")
  \/ NativeAct("fb_act2", "fb_sl2", "fb_count")
  \/ NativeAct("fb_act3", "fb_sl3", "fb_count")
  \/ NativeAct("fb_act4", "fb_count", "fb_count")

fb_act_sleep ==
  \/ Sleep("fb_sl1", "fb_act2")
  \/ Sleep("fb_sl2", "fb_act3")
  \/ Sleep("fb_sl3", "fb_act4")

fb_count == MobileCount("fb_count", "fb_sleep")

fb_sleep == MobileSleep("fb_sleep", "fb_wait")

fb_end == NextProfile("fb_end")

\* variant: a terminate() that raises ends the loop over the handles
td_term_raise_ends_loop ==
  /\ pc = "td"
  /\ IF ti > Len(browser_processes)
       THEN pc' = "td_final" /\ ti' = ti /\ UNCHANGED <<td_pending, td_raised>>
       ELSE \E raised \in BOOLEAN :
              /\ td_pending' = td_pending \ {ti}
              /\ td_raised' = (td_raised \/ raised)
              /\ IF raised THEN pc' = "td_final" /\ ti' = ti
                           ELSE pc' = "td_sleep" /\ ti' = ti
  /\ UNCHANGED <<state, loopVars, completed, browser_processes, completed_profiles,
                 oldest_process, histVars, pause_counts, fixedVars, td_unkilled,
                 actVars, stopVars, mobVars, evVars, msVars, ctlVars, thrVars>>

\* 629-637: process.terminate() for the next tracked handle; an exception is
\* swallowed and the loop takes the next handle
td_term ==
  /\ pc = "td"
  /\ IF ti > Len(browser_processes)
       THEN pc' = "td_final" /\ ti' = ti /\ UNCHANGED <<td_pending, td_raised>>
       ELSE \E raised \in BOOLEAN :
              /\ td_pending' = td_pending \ {ti}
              /\ td_raised' = (td_raised \/ raised)
              /\ IF raised THEN pc' = "td" /\ ti' = ti + 1
                           ELSE pc' = "td_sleep" /\ ti' = ti
  /\ UNCHANGED <<state, loopVars, completed, browser_processes, completed_profiles,
                 oldest_process, histVars, pause_counts, fixedVars, td_unkilled,
                 actVars, stopVars, mobVars, evVars, msVars, ctlVars, thrVars>>

\* 633: sleep_with_pause(0.5)
td_sleep == Sleep("td_sleep", "td_poll")

\* 634: if process.poll() is None
td_poll ==
  /\ pc = "td_poll"
  /\ \E o \in PollOutcomes :
       IF o = "alive"
         THEN pc' = "td_kill" /\ ti' = ti /\ td_unkilled' = td_unkilled \cup {ti}
         ELSE pc' = "td" /\ ti' = ti + 1 /\ td_unkilled' = td_unkilled
  /\ UNCHANGED <<state, loopVars, completed, browser_processes, completed_profiles,
                 oldest_process, histVars, pause_counts, fixedVars, td_pending, td_raised,
                 actVars, stopVars, mobVars, evVars, msVars, ctlVars, thrVars>>

\* 635: process.kill() (an exception is swallowed), then the next handle
td_kill ==
  /\ pc = "td_kill"
  /\ td_unkilled' = td_unkilled \ {ti}
  /\ ti' = ti + 1
  /\ pc' = "td"
  /\ UNCHANGED <<state, loopVars, completed, browser_processes, completed_profiles,
                 oldest_process, histVars, pause_counts, fixedVars, td_pending, td_raised,
                 actVars, stopVars, mobVars, evVars, msVars, ctlVars, thrVars>>

\* variant: completion needs more than the total
TerminalStatusStrict(c, t) == IF c > t THEN "Automation completed" ELSE "Automation stopped"

\* variant: a run always reports completion
TerminalStatusAlways(c, t) == "Automation completed"

\* "Automation completed" if state["completed"] >= state["total"] else "Automation stopped"
TerminalStatus(c, t) == IF c >= t THEN "Automation completed" ELSE "Automation stopped"

\* 638-644: the final reset
td_final ==
  /\ pc = "td_final"
  /\ state' = [state EXCEPT
       !.is_running = FALSE,
       !.status = <<TerminalStatus(state.completed, state.total), "">>,
       !.current_search = <<"", "">>,
       !.current_profile = "",
       !.is_paused = FALSE ]
  /\ pause_counts' = 0
  /\ pc' = "td_wrapper"
  /\ UNCHANGED <<loopVars, completed, poolVars, histVars, fixedVars, auxVars>>

\* 776-781: the thread's wrapper clears is_running again and the thread ends
td_wrapper ==
  /\ pc = "td_wrapper"
  /\ state' = [state EXCEPT !.is_running = FALSE]
  /\ pc' = "idle"
  /\ UNCHANGED <<loopVars, completed, poolVars, histVars, pause_counts, fixedVars, auxVars>>

\* the steps of the worker other than the opening of the Playwright session
WorkerSteps ==
  \/ profile_next \/ profile_open \/ launch_desktop \/ settle
  \/ d_wait \/ d_check \/ d_set \/ d_act \/ d_act_sleep \/ d_count \/ d_sleep
  \/ post \/ ev_term \/ ev_kill \/ ev_pop \/ ev_sleep2 \/ ev_status
  \/ m_elig \/ pw_status \/ pw_wait \/ pw_check \/ pw_set \/ pw_search
  \/ pw_count \/ pw_sleep \/ pw_exit
  \/ fb_status \/ fb_launch \/ fb_settle \/ fb_wait \/ fb_check \/ fb_set \/ fb_act
  \/ fb_act_sleep \/ fb_count \/ fb_sleep \/ fb_end
  \/ worker_except
  \/ td_term \/ td_sleep \/ td_poll \/ td_kill \/ td_final \/ td_wrapper

Worker == WorkerSteps \/ pw_enter

Control == stop_automation \/ pause_automation \/ resume_automation \/ control_noop

Next == start_automation \/ Control \/ Worker

Spec == Init /\ [][Next]_vars

\* a host on which both mobile paths can run
InitFair ==
  /\ InitRun
  /\ InitBq
  /\ _HAVE_PLAYWRIGHT = TRUE
  /\ MOBILE_SEARCH_COUNT = MaxMobileCount

\* the worker is a thread of its own: it is scheduled as long as it can step
SpecFair == InitFair /\ [][Next]_vars /\ WF_vars(Worker)

\* the same run with the resources of the Playwright session followed, on a
\* host on which the session can be opened
WorkerSession == WorkerSteps \/ pw_enter_acquire

NextSession == start_automation \/ Control \/ WorkerSession

SpecSession == InitFair /\ [][NextSession]_vars

\* ------------------------------------------------------ overlapping starts
\* The worker threads when start requests are not kept apart: each slot of
\* `threads` is one request to /api/start and the thread it spawns.  A slot is
\* "none" (free), "starting" (the request has passed the check of is_running,
\* 713-715), "running" (the thread is inside automation_worker, 444-637),
\* "final" (it is at the final reset, 638-644), "wrapper" (776-781).

\* variant: the request is let through whatever is_running is
ov_check_unguarded(i) ==
  /\ threads[i] = "none"
  /\ threads' = [threads EXCEPT ![i] = "starting"]
  /\ UNCHANGED <<start_response, runVars, envVars, bqVars, actVars, stopVars, mobVars, tdVars,
                 evVars, msVars, ctlVars>>

\* 713-715: a request that finds is_running true is answered with the error
\* "Automation is already running" (400) and returns
ov_reject(i) ==
  /\ threads[i] = "none"
  /\ state.is_running
  /\ start_response' = "already running"
  /\ UNCHANGED <<threads, runVars, envVars, bqVars, actVars, stopVars, mobVars, tdVars,
                 evVars, msVars, ctlVars>>

\* 713-715: the request is refused only while is_running is true
ov_check(i) ==
  /\ threads[i] = "none"
  /\ ~state.is_running
  /\ threads' = [threads EXCEPT ![i] = "starting"]
  /\ UNCHANGED <<start_response, runVars, envVars, bqVars, actVars, stopVars, mobVars, tdVars, evVars, msVars, ctlVars>>

\* 717-784: the request seeds the run state and starts its worker thread
ov_spawn(i) ==
  /\ threads[i] = "starting"
  /\ state' \in { SeedState(ResolveProfiles(r.browser, r.profiles), r.mobileEnabled) :
                    r \in RequestsOn(_HAVE_PLAYWRIGHT, MOBILE_SEARCH_COUNT) }
  /\ threads' = [threads EXCEPT ![i] = "running"]
  /\ start_response' = "started"
  /\ UNCHANGED <<pc, workerVars, stop_seen, pause_counts, envVars, bqVars,
                 actVars, stopVars, mobVars, tdVars, evVars, msVars, ctlVars>>

\* 454-637: the thread leaves the profile loop and the loop over the handles
\* (list exhausted, is_running read false, or an exception)
ov_leave(i) ==
  /\ threads[i] = "running"
  /\ threads' = [threads EXCEPT ![i] = "final"]
  /\ UNCHANGED <<start_response, runVars, envVars, bqVars, actVars, stopVars, mobVars, tdVars, evVars, msVars, ctlVars>>

\* 638-644: the final reset
ov_final(i) ==
  /\ threads[i] = "final"
  /\ state' = [state EXCEPT
       !.is_running = FALSE,
       !.status = <<TerminalStatus(state.completed, state.total), "">>,
       !.current_search = <<"", "">>,
       !.current_profile = "",
       !.is_paused = FALSE ]
  /\ threads' = [threads EXCEPT ![i] = "wrapper"]
  /\ UNCHANGED <<start_response, pc, workerVars, stop_seen, pause_counts, envVars, bqVars,
                 actVars, stopVars, mobVars, tdVars, evVars, msVars, ctlVars>>

\* 776-781: the wrapper clears is_running and the thread ends
ov_wrapper(i) ==
  /\ threads[i] = "wrapper"
  /\ state' = [state EXCEPT !.is_running = FALSE]
  /\ threads' = [threads EXCEPT ![i] = "none"]
  /\ UNCHANGED <<start_response, pc, workerVars, stop_seen, pause_counts, envVars, bqVars,
                 actVars, stopVars, mobVars, tdVars, evVars, msVars, ctlVars>>

OverlapThread ==
  \E i \in 1..MaxThreads :
    ov_check(i) \/ ov_reject(i) \/ ov_spawn(i) \/ ov_leave(i) \/ ov_final(i) \/ ov_wrapper(i)

NextOverlap == OverlapThread \/ Control

SpecOverlap == Init /\ [][NextOverlap]_vars

\* ----------------------------------------------- _build_queries checked alone
BaseAlphabet == {"t0", "t1"}

BaseLists == UNION { [1..n -> BaseAlphabet] : n \in 0..MaxBase }

InitBuild ==
  /\ InitRun
  /\ _HAVE_PLAYWRIGHT = FALSE
  /\ MOBILE_SEARCH_COUNT = 0
  /\ bq_base \in BaseLists
  /\ bq_count \in -1..MaxCount
  /\ bq_out = <<>>
  /\ bq_done = FALSE

\* a call _build_queries(base, count)
BuildQueries ==
  /\ ~bq_done
  /\ bq_out' = _build_queries(bq_base, bq_count)
  /\ bq_done' = TRUE
  /\ UNCHANGED <<runVars, envVars, bq_base, bq_count, auxVars>>

SpecBuild == InitBuild /\ [][BuildQueries]_vars

\* ------------------------------------------------------------------ claims
\* element i (from 0) of the cyclic repetition of base
Cyclic(base, i) == base[(i % Len(base)) + 1]

\* C1: _build_queries(base, count) of a non-empty base and a count >= 0 has
\* length count and element i equal to base[i mod len(base)]; of an empty base
\* it is the empty sequence, for any count.
C1_BuildQueriesContract ==
  bq_done =>
    /\ (bq_base # <<>> /\ bq_count >= 0) =>
         /\ Len(bq_out) = bq_count
         /\ \A i \in 0..(bq_count - 1) : bq_out[i + 1] = Cyclic(bq_base, i)
    /\ bq_base = <<>> => bq_out = <<>>

\* a call whose count wraps around a base of two different topics
C1_Witness ==
  /\ bq_done
  /\ bq_base = <<"t0", "t1">>
  /\ bq_count = MaxCount
  /\ Len(bq_out) = MaxCount

\* the worker has finished a run (the thread has ended)
RunEnded == pc = "idle" /\ profiles # <<>>

C3_MobileFallback ==
  ( /\ RunEnded
    /\ state.mobile_enabled
    /\ ~_HAVE_PLAYWRIGHT
    /\ ~stop_seen )
  => /\ \A i \in DOMAIN profiles :
          StoredLevel(profiles[i].name) = 2 =>
            IF MOBILE_SEARCH_COUNT > 0
              THEN /\ profiles[i].name \in DOMAIN state.mobile_progress
                   /\ state.mobile_progress[profiles[i].name].done = MOBILE_SEARCH_COUNT
                   /\ state.mobile_progress[profiles[i].name].total = MOBILE_SEARCH_COUNT
              ELSE profiles[i].name \notin DOMAIN state.mobile_progress
     /\ StoredLevel(profiles[Len(profiles)].name) = 2 =>
          /\ Len(m_counted) = MOBILE_SEARCH_COUNT
          /\ \A i \in 0..(MOBILE_SEARCH_COUNT - 1) : m_counted[i + 1] = Cyclic(fruits, i)

\* a level-2 profile whose mobile quota was completed in the fallback window
C3_Witness ==
  /\ RunEnded
  /\ state.mobile_enabled /\ ~_HAVE_PLAYWRIGHT /\ ~stop_seen
  /\ profiles = <<[name |-> "B", directory |-> "Profile 2"]>>
  /\ browser_processes = <<<<1, "desktop">>, <<1, "mobile">>>>
  /\ state.mobile_progress["B"].done = MaxMobileCount

\* C4 (as claimed): progress = (completed / total) * 100 and 0 <= progress <= 100
C4_ProgressRange ==
  LET p == state.progress
  IN /\ p[1] * Max(1, state.total) = state.completed * 100 * p[2]
     /\ 0 <= p[1]
     /\ p[1] <= 100 * p[2]

\* C5: every entry of profile_progress and of mobile_progress has
\* 0 <= done <= total, also when more increments than total are issued.
C5_DoneWithinTotal ==
  /\ \A n \in DOMAIN state.profile_progress :
        /\ 0 <= state.profile_progress[n].done
        /\ state.profile_progress[n].done <= state.profile_progress[n].total
  /\ \A n \in DOMAIN state.mobile_progress :
        /\ 0 <= state.mobile_progress[n].done
        /\ state.mobile_progress[n].done <= state.mobile_progress[n].total

\* the same profile name processed twice: an increment past total was absorbed
C5_Witness ==
  /\ pc = "d_sleep"
  /\ pidx = 2
  /\ name = "A"
  /\ state.completed > state.profile_progress["A"].total
  /\ state.profile_progress["A"].done = state.profile_progress["A"].total

\* C6 (as claimed): completed <= total in every state
C6_CompletedWithinTotal == state.completed <= state.total

\* the worker is inside sleep_with_pause, or inside _wait_if_paused with a
\* query left to run
InPacing ==
  \/ pc \in {"settle", "d_sl1", "d_sl2", "d_sl3", "d_sleep", "ev_sleep", "ev_sleep2",
             "pw_sleep", "fb_settle", "fb_sl1", "fb_sl2", "fb_sl3", "fb_sleep",
             "td_sleep"}
  \/ pc = "d_wait" /\ qi <= Len(queries)
  \/ pc \in {"pw_wait", "fb_wait"} /\ mqi <= Len(mqueries)

\* the worker steps that return from sleep_with_pause or _wait_if_paused
PacingStep ==
  \/ settle \/ d_wait \/ d_act_sleep \/ d_sleep \/ ev_kill \/ ev_sleep2
  \/ pw_wait \/ pw_sleep \/ fb_settle \/ fb_wait \/ fb_act_sleep \/ fb_sleep
  \/ td_sleep

\* C7: when the run has been stopped, a worker inside _wait_if_paused or
\* sleep_with_pause is not blocked, paused or not: its next poll returns.
C7_StopUnblocksPause ==
  (InPacing /\ ~state.is_running) => ENABLED (PacingStep /\ pc' # pc)

\* a stop accepted while the worker waits, paused, for its next desktop query
C7_Witness ==
  /\ pc = "d_wait" /\ qi <= Len(queries)
  /\ state.is_paused
  /\ ~state.is_running
  /\ stop_seen

\* C8 (as claimed): after the pool policy has run for the third or a later
\* profile, at most MAX_ACTIVE_BROWSERS handles are tracked
C8_PoolBounded ==
  (pc = "m_elig" /\ pidx > MAX_ACTIVE_BROWSERS)
    => Len(browser_processes) <= MAX_ACTIVE_BROWSERS

\* C9 (as claimed): no step taken while the run is paused changes completed,
\* progress or a done counter
C9_PauseFreezes ==
  [][ (state.is_paused /\ state.is_running /\ state'.is_paused /\ state'.is_running)
        => /\ state'.completed = state.completed
           /\ state'.progress = state.progress
           /\ state'.profile_progress = state.profile_progress
           /\ state'.mobile_progress = state.mobile_progress ]_vars

\* C9 (amended): between a pause request and the next resume request the worker
\* applies at most one counter update, that of the query in flight when the
\* pause arrived.
C9_PauseFreezesAfterInFlight == pause_counts <= 1

\* the query in flight was counted after the pause, and the worker now waits
C9_Witness ==
  /\ pc = "d_sleep"
  /\ state.is_paused /\ state.is_running
  /\ pause_counts = 1

\* the worker is in the desktop pass of the current profile
InDesktopPass ==
  pc \in {"launch", "settle", "d_wait", "d_check", "d_set", "d_act1", "d_act2",
          "d_act3", "d_act4", "d_sl1", "d_sl2", "d_sl3", "d_count", "d_sleep"}

\* C10: under every interleaving of pause and resume requests the desktop
\* queries set and counted for a profile are, in order, the first ones of
\* _build_queries(fruits, quota) (query i = fruits[i mod len(fruits)]), at most
\* one query being set and not yet counted; once the pass has ended without a
\* stop they are all quota of them: none skipped, none repeated.
C10_ResumeContinuity ==
  /\ Len(issued) <= desktop_total
  /\ \A i \in 1..Len(issued) : issued[i] = Cyclic(fruits, i - 1)
  /\ Len(counted) <= Len(issued)
  /\ Len(issued) <= Len(counted) + 1
  /\ counted = SubSeq(issued, 1, Len(counted))
  /\ (~stop_seen /\ ~InDesktopPass) => Len(counted) = desktop_total

\* after a resume the worker is about to run the query that follows the last
\* one counted
C10_Witness ==
  /\ pc = "d_check"
  /\ state.status = <<"Resuming...", "">>
  /\ ~state.is_paused /\ state.is_running
  /\ Len(counted) >= 1
  /\ qi = Len(counted) + 1
  /\ issued = counted

\* the positions of the teardown phase, and of a worker that has ended
TeardownPcs ==
  {"except", "td", "td_sleep", "td_poll", "td_kill", "td_final", "td_wrapper", "idle"}

\* the worker is in its teardown phase, or has ended
InTeardown == pc \in TeardownPcs

WorkerFinished == pc \in {"td_wrapper", "idle"} /\ profiles # <<>>

\* C12: however the worker left its profile loop (list exhausted, stop,
\* exception), once it has finished the shared state has is_running = false,
\* is_paused = false, current_search = "" and current_profile = "".
C12_TeardownResets ==
  WorkerFinished =>
    /\ ~state.is_running
    /\ ~state.is_paused
    /\ state.current_search = <<"", "">>
    /\ state.current_profile = ""

\* a run ended by the KeyError of its second profile, after the first one ran
C12_Witness ==
  /\ RunEnded
  /\ ~stop_seen
  /\ pidx = 2
  /\ Len(profiles) = 2 /\ profiles[2].name = NoName
  /\ Len(counted) > 0
  /\ state.current_profile = ""

\* C13: when the worker has finished, the status is "Automation completed" if
\* completed >= total and "Automation stopped" otherwise, and nothing else.
C13_TerminalStatus ==
  WorkerFinished =>
    /\ state.status \in {<<"Automation completed", "">>, <<"Automation stopped", "">>}
    /\ state.status = <<"Automation completed", "">> <=> state.completed >= state.total

\* a run stopped after some of its queries were counted
C13_Witness ==
  /\ RunEnded
  /\ stop_seen
  /\ state.completed > 0 /\ state.completed < state.total
  /\ state.status = <<"Automation stopped", "">>

\* the worker is in the loop over the tracked handles of the teardown
InTeardownLoop == pc \in {"td", "td_sleep", "td_poll", "td_kill"}

\* C14: the teardown tries to terminate every tracked handle, in order, and
\* kills each one found alive after the grace wait; a terminate() that raises
\* stops neither the loop nor the final reset: when the loop is left no tracked
\* handle is left without a terminate attempt, nor alive without a kill.
C14_TeardownTerminatesAll ==
  /\ InTeardownLoop =>
       /\ td_pending = {i \in 1..Len(browser_processes) : i >= ti /\ (i > ti \/ pc = "td")}
       /\ td_unkilled = IF pc = "td_kill" THEN {ti} ELSE {}
  /\ (pc \in {"td_final", "td_wrapper"} \/ RunEnded) =>
       /\ td_pending = {}
       /\ td_unkilled = {}

\* the final reset is reached with two handles tracked after a terminate() raised
C14_Witness ==
  /\ pc = "td_final"
  /\ td_raised
  /\ Len(browser_processes) >= 2
  /\ ti = Len(browser_processes) + 1
  /\ td_pending = {}

\* the positions inside a query iteration, after the check of is_running
QueryPcs ==
  {"d_set", "d_act1", "d_act2", "d_act3", "d_act4", "d_sl1", "d_sl2", "d_sl3", "d_count",
   "d_sleep", "pw_set", "pw_search", "pw_count", "pw_sleep", "fb_set", "fb_act1", "fb_act2",
   "fb_act3", "fb_act4", "fb_sl1", "fb_sl2", "fb_sl3", "fb_count", "fb_sleep"}

\* C15: after a stop request is accepted the worker, scheduled fairly and paused
\* or not, reaches teardown and ends; once it has read is_running = false it is
\* in no query iteration any more.
C15_StopEffective ==
  /\ [](observed_stop => pc \notin QueryPcs)
  /\ (stop_seen ~> pc = "idle")

\* a stop accepted while the worker was paused inside a sleep of a query; the
\* worker has since read is_running = false and reached the final reset
C15_Witness ==
  /\ pc = "td_final"
  /\ stop_seen
  /\ observed_stop
  /\ state.is_paused
  /\ Len(issued) = 2

\* C16 (as claimed): at most one worker thread is inside automation_worker
C16_SingleWorker ==
  Cardinality({i \in 1..MaxThreads : threads[i] \in {"running", "final"}}) <= 1

\* the phase of a profile iteration a worker position belongs to
Phase(p) ==
  CASE p = "loop" -> 0
    [] p \in {"open", "launch", "settle", "d_wait", "d_check", "d_set", "d_act1", "d_act2",
              "d_act3", "d_act4", "d_sl1", "d_sl2", "d_sl3", "d_count", "d_sleep"} -> 1
    [] p \in {"post", "ev_term", "ev_sleep", "ev_poll", "ev_pop", "ev_sleep2", "ev_status"} -> 2
    [] p = "m_elig" -> 3
    [] OTHER -> 4

\* the worker is in a mobile pass (Playwright session or UA-window fallback)
InMobilePass == ~InTeardown /\ Phase(pc) = 4

\* C17: within a profile the desktop pass comes before the mobile pass, and the
\* profiles are processed one after the other in list order: the worker's
\* position <<profile, phase>> never moves back, no mobile query of a profile is
\* set or counted during its desktop pass, and every tracked handle was launched
\* for the current or an earlier profile, in that order.
C17_PassOrdering ==
  /\ [](InDesktopPass => (m_issued = <<>> /\ m_counted = <<>>))
  /\ [](\A i \in 1..Len(browser_processes) :
          /\ browser_processes[i][1] <= pidx
          /\ i > 1 => browser_processes[i - 1][1] <= browser_processes[i][1])
  /\ [](~InTeardown => (pidx \in 1..(Len(profiles) + 1) /\
          (pc # "loop" => (pidx <= Len(profiles) /\ name = profiles[pidx].name))))
  /\ [][ (~InTeardown /\ ~InTeardown') =>
           \/ pidx' > pidx /\ Phase(pc') = 0
           \/ pidx' = pidx /\ Phase(pc') >= Phase(pc) ]_vars

\* the fallback mobile pass of the second profile, after both passes of the first
C17_Witness ==
  /\ pc = "fb_count"
  /\ pidx = 2
  /\ browser_processes = <<<<1, "desktop">>, <<1, "mobile">>, <<2, "desktop">>, <<2, "mobile">>>>
  /\ Len(counted) = QuotaLevel2
  /\ Len(m_issued) = 1
  /\ m_counted = <<>>

\* C18: an ordinary exception of a native input action or of a Playwright
\* search does not end the run: the worker's next steps count the failed query
\* (completed and the profile's done for desktop, the mobile done for mobile),
\* sleep, and go on with the next query.
C18_OptimisticAccounting ==
  [][ (act_outcome = "error" /\ pc' # pc) =>
        /\ pc \in {"d_count", "d_sleep", "pw_count", "pw_sleep", "fb_count", "fb_sleep"}
        /\ pc = "d_count" =>
             /\ pc' = "d_sleep"
             /\ state'.completed = state.completed + 1
             /\ counted' = Append(counted, queries[qi])
             /\ name \in DOMAIN state.profile_progress =>
                  state'.profile_progress[name].done =
                    Min(state.profile_progress[name].done + 1, state.profile_progress[name].total)
        /\ pc \in {"pw_count", "fb_count"} =>
             /\ pc' = IF pc = "pw_count" THEN "pw_sleep" ELSE "fb_sleep"
             /\ m_counted' = Append(m_counted, mqueries[mqi])
             /\ state'.mobile_progress[name].done =
                  Min(state.mobile_progress[name].done + 1, state.mobile_progress[name].total)
        /\ pc = "d_sleep" => (pc' = "d_wait" /\ qi' = qi + 1)
        /\ pc = "pw_sleep" => (pc' = "pw_wait" /\ mqi' = mqi + 1)
        /\ pc = "fb_sleep" => (pc' = "fb_wait" /\ mqi' = mqi + 1) ]_vars

\* the second desktop query failed with an ordinary exception and was counted
C18_Witness ==
  /\ pc = "d_sleep"
  /\ act_outcome = "error"
  /\ qi = 2
  /\ Len(counted) = 2
  /\ state.completed = 2

\* the gate of the mobile pass, for the profile name the worker holds
MobileGate ==
  /\ state.mobile_enabled
  /\ name \in DOMAIN state.profile_eligibility
  /\ state.profile_eligibility[name].mobile
  /\ MOBILE_SEARCH_COUNT > 0

\* C19: a mobile pass is performed for a profile only if mobile mode is enabled,
\* profile_eligibility[profile].mobile is true and MOBILE_SEARCH_COUNT > 0;
\* otherwise the step at the gate opens no session, launches no window, leaves
\* mobile_progress alone and takes the next profile.
C19_MobileGate ==
  /\ []((InMobilePass \/ (pc # "open" /\ (m_issued # <<>> \/ m_counted # <<>>
                                             \/ mobile_path # "none" \/ pw_raised)))
        => MobileGate)
  /\ [](\A i \in 1..Len(browser_processes) :
          browser_processes[i][2] = "mobile" =>
            /\ state.mobile_enabled
            /\ MOBILE_SEARCH_COUNT > 0
            /\ state.profile_eligibility[profiles[browser_processes[i][1]].name].mobile)
  /\ [][ (pc = "m_elig" /\ pc' # pc /\ ~MobileGate) =>
           /\ pc' = "loop"
           /\ pidx' = pidx + 1
           /\ state' = state
           /\ browser_processes' = browser_processes ]_vars

\* with mobile enabled and a positive count, the level-1 first profile was
\* skipped at the gate
C19_Witness ==
  /\ pc = "loop"
  /\ pidx = 2
  /\ profiles[1].name = "A"
  /\ state.mobile_enabled
  /\ MOBILE_SEARCH_COUNT > 0
  /\ ~stop_seen
  /\ Len(counted) = QuotaLevel1
  /\ mobile_path = "none"
  /\ "A" \notin DOMAIN state.mobile_progress

\* the worker is in the UA-window fallback, after its status line
InFallback ==
  pc \in {"fb_launch", "fb_settle", "fb_wait", "fb_check", "fb_set", "fb_act1", "fb_act2",
          "fb_act3", "fb_act4", "fb_sl1", "fb_sl2", "fb_sl3", "fb_count", "fb_sleep", "fb_end"}

\* the worker is in the Playwright path
InPlaywright ==
  pc \in {"pw_status", "pw_enter", "pw_wait", "pw_check", "pw_set", "pw_search",
          "pw_count", "pw_sleep", "pw_exit"}

\* C20: for a profile that passed the gate, the fallback is not run when the
\* Playwright path ended without raising, and it is run when that path raised
\* or Playwright is unavailable; the run goes on in both cases.
C20_StrategyExclusivity ==
  /\ InPlaywright => (_HAVE_PLAYWRIGHT /\ mobile_path = "none" /\ ~pw_raised)
  /\ InFallback => mobile_path = "fallback"
  /\ mobile_path = "fallback" => (~_HAVE_PLAYWRIGHT \/ pw_raised)
  /\ mobile_path = "playwright" => (~pw_raised /\ pc \in {"loop", "open"} \cup TeardownPcs)
  /\ pw_raised => (pc = "fb_status" \/ mobile_path = "fallback")
  /\ (pc = "loop" /\ pidx > 1 /\ MobileGate) =>
       /\ mobile_path \in {"playwright", "fallback"}
       /\ mobile_path = "playwright" <=> (_HAVE_PLAYWRIGHT /\ ~pw_raised)

\* the Playwright session failed to open and the fallback completed the quota
C20_Witness ==
  /\ pc = "loop"
  /\ pidx = 2
  /\ _HAVE_PLAYWRIGHT
  /\ pw_raised
  /\ mobile_path = "fallback"
  /\ ~stop_seen
  /\ Len(m_counted) = MOBILE_SEARCH_COUNT

\* the positions at which the pool policy is evicting a handle (518-526)
EvictionPcs == {"ev_term", "ev_sleep", "ev_poll", "ev_pop", "ev_sleep2", "ev_status"}

\* C21 (as claimed): once the worker has read is_running = false in a desktop
\* query loop it takes no further run step before teardown: it is in no pool
\* eviction, it has opened no Playwright session and launched no UA window
C21_StopAbortsRun ==
  observed_stop =>
    /\ pc \notin EvictionPcs
    /\ pc \notin {"pw_wait", "pw_check"}
    /\ ~(pc = "fb_settle" /\ LaunchesMobile(browser))

\* the positions whose step is visible from outside: a change of
\* current_search, a native input action, a Playwright search
VisiblePcs ==
  {"d_set", "d_act1", "d_act2", "d_act3", "d_act4", "pw_set", "pw_search",
   "fb_set", "fb_act1", "fb_act2", "fb_act3", "fb_act4"}

\* the worker is about to take a visible step: one of VisiblePcs, or the launch
\* of a browser process
AtVisibleStep ==
  \/ pc \in VisiblePcs
  \/ pc = "launch" /\ LaunchesDesktop(browser)
  \/ pc = "fb_launch" /\ LaunchesMobile(browser)

\* C22 (as claimed): while the run is paused (a pause request was processed and
\* no resume or stop request since) the worker takes no visible step
C22_PausePrecedesAction ==
  [][ (state.is_paused /\ state.is_running /\ AtVisibleStep) => pc' = pc ]_vars

\* the step of an accepted start request: is_running goes from false to true
StartStep == ~state.is_running /\ state'.is_running

JustStarted == pc = "loop" /\ pidx = 1 /\ profiles # <<>>

\* the sum of the desktop totals seeded for the profiles ps[i..]
RECURSIVE SumSeededTotals(_, _)
SumSeededTotals(ps, i) ==
  IF i > Len(ps) THEN 0
  ELSE state.profile_progress[NameOf(ps[i])].total + SumSeededTotals(ps, i + 1)

\* C24: after an accepted start, profile_progress[p] is {done: 0, total: 10}
\* for every profile p of the run stored at level 1 and {done: 0, total: 32}
\* for every one at level 2; total is the sum of the desktop totals over the
\* profiles of the run; mobile_progress has an entry for p, with done 0 and
\* total MOBILE_SEARCH_COUNT, if and only if mobile is enabled, p is at level 2
\* and MOBILE_SEARCH_COUNT > 0.
C24_QuotaSeeding ==
  JustStarted =>
    LET keys == {NameOf(profiles[i]) : i \in DOMAIN profiles}
    IN /\ DOMAIN state.profile_progress = keys
       /\ \A n \in keys :
            /\ StoredLevel(n) = 1 => state.profile_progress[n] = [done |-> 0, total |-> 10]
            /\ StoredLevel(n) = 2 => state.profile_progress[n] = [done |-> 0, total |-> 32]
            /\ n \in DOMAIN state.mobile_progress <=>
                 (state.mobile_enabled /\ StoredLevel(n) = 2 /\ MOBILE_SEARCH_COUNT > 0)
            /\ n \in DOMAIN state.mobile_progress =>
                 state.mobile_progress[n] = [done |-> 0, total |-> MOBILE_SEARCH_COUNT]
       /\ DOMAIN state.mobile_progress \subseteq keys
       /\ state.total = SumSeededTotals(profiles, 1)
       /\ state.completed = 0

\* a start with a level-1 and a level-2 profile, mobile enabled, on a host with
\* a positive MOBILE_SEARCH_COUNT
C24_Witness ==
  /\ JustStarted
  /\ Len(profiles) = 2
  /\ profiles[1].name = "A" /\ profiles[2].name = "B"
  /\ state.mobile_enabled
  /\ MOBILE_SEARCH_COUNT > 0
  /\ state.total = 42
  /\ DOMAIN state.mobile_progress = {"B"}

\* the calls the pool policy can have made on the evicted handle when it goes
\* on to completed_profiles.pop(0)
EvictionLogs ==
  { <<"terminate raised">>, <<"terminate", "poll exited">>, <<"terminate", "poll raised">>,
    <<"terminate", "poll alive", "kill">> }

\* C25: no tracked handle is evicted after the first or the second completed
\* profile of a run; after the desktop pass of each later profile exactly one
\* handle is evicted (when one is tracked), the head of browser_processes; it
\* gets terminate, and kill when the poll after the grace wait finds it alive;
\* when terminate raises the handle is removed all the same and the run goes on.
C25_EvictionPolicy ==
  /\ [][ (~StartStep /\ browser_processes' # browser_processes /\
            Len(browser_processes') <= Len(browser_processes)) =>
           /\ pc = "post"
           /\ pidx > MAX_ACTIVE_BROWSERS
           /\ browser_processes' = Tail(browser_processes)
           /\ oldest_process' = Head(browser_processes)
           /\ pc' = "ev_term" ]_vars
  /\ [][ (pc = "post" /\ pc' # pc) =>
           IF pidx > MAX_ACTIVE_BROWSERS
             THEN IF browser_processes # <<>>
                    THEN Len(browser_processes') = Len(browser_processes) - 1
                    ELSE pc' = "ev_pop"
             ELSE pc' = "m_elig" /\ browser_processes' = browser_processes ]_vars
  /\ [](pc \in EvictionPcs => pidx > MAX_ACTIVE_BROWSERS)
  /\ []((pc \in EvictionPcs /\ pc # "ev_status" /\ ev_log # <<>>) =>
          \A i \in 1..Len(browser_processes) : browser_processes[i] # oldest_process)
  /\ [](pc \in {"ev_pop", "ev_sleep2", "ev_status"} =>
          IF LaunchesDesktop(browser) THEN ev_log \in EvictionLogs ELSE ev_log = <<>>)
  /\ [][ (pc \in EvictionPcs /\ pc' # pc) => pc' \in EvictionPcs \cup {"m_elig"} ]_vars

\* the third profile: terminate() of the first profile's handle raised, the
\* handle is gone from the table and the policy goes on
C25_Witness ==
  /\ pc = "ev_status"
  /\ pidx = 3
  /\ ev_log = <<"terminate raised">>
  /\ oldest_process = <<1, "desktop">>
  /\ browser_processes = <<<<2, "desktop">>, <<3, "desktop">>>>
  /\ completed_profiles = <<name, name>>

\* C26: the close of an open MobileSearcher attempts to persist the session
\* state, then to release the context, the browser and the automation runtime,
\* in that order; each release is attempted whether or not an earlier call
\* raised; and the close never raises: the worker takes the next profile.
C26_MobileClose ==
  exit_log # <<>> =>
    /\ Len(exit_log) = 4
    /\ exit_log[1][1] = "storage_state"
    /\ exit_log[2][1] = "context.close"
    /\ exit_log[3][1] = "browser.close"
    /\ exit_log[4][1] = "playwright.stop"
    /\ pc = "loop"
    /\ mobile_path = "playwright"
    /\ ~pw_raised

\* a close in which the persistence and the release of the context raised, and
\* the browser and the runtime were released all the same
C26_Witness ==
  /\ pc = "loop"
  /\ pidx = 2
  /\ exit_log = <<<<"storage_state", TRUE>>, <<"context.close", TRUE>>,
                  <<"browser.close", FALSE>>, <<"playwright.stop", FALSE>>>>
  /\ Len(m_counted) = MOBILE_SEARCH_COUNT

\* C27: a start request received while is_running is true is answered with an
\* error and changes nothing: no field of the shared run state is written and
\* the request spawns no worker (it never gets past the check of is_running).
C27_StartRejected ==
  /\ [][ \A i \in 1..MaxThreads :
           (state.is_running /\ threads[i] = "none") => threads'[i] = "none" ]_vars
  /\ [][ (start_response' = "already running" /\ start_response # "already running") =>
           /\ state.is_running
           /\ state' = state
           /\ threads' = threads ]_vars
  /\ [][ \A i \in 1..MaxThreads :
           (threads[i] = "none" /\ threads'[i] = "starting") =>
             (~state.is_running /\ state' = state) ]_vars

\* a start was refused while the run of an earlier start was going on
C27_Witness ==
  /\ start_response = "already running"
  /\ state.is_running
  /\ state.status = <<"Starting automation...", "">>
  /\ Cardinality({i \in 1..MaxThreads : threads[i] = "running"}) = 1
  /\ Cardinality({i \in 1..MaxThreads : threads[i] = "none"}) = MaxThreads - 1

\* a step of a control route or of no one: no variable of the worker changes
ControlStep == UNCHANGED workerVars /\ ~StartStep

\* C28: a stop, pause or resume request processed while is_running is false
\* leaves every field of the shared run state unchanged, so a finished run
\* keeps its terminal status and is_paused = false until the next start.
C28_ControlNoops ==
  /\ [][ (~state.is_running /\ ControlStep) => state' = state ]_vars
  /\ [][ (ctl_ignored' /\ ~ctl_ignored) => (~state.is_running /\ state' = state) ]_vars
  /\ []((RunEnded /\ ctl_ignored) =>
          /\ ~state.is_running
          /\ ~state.is_paused
          /\ state.status \in {<<"Automation completed", "">>, <<"Automation stopped", "">>})

\* a control request arrived after a run of a level-1 and a level-2 profile
\* had completed; the status is still the terminal one
C28_Witness ==
  /\ RunEnded
  /\ ctl_ignored
  /\ ~stop_seen
  /\ ~state.is_paused
  /\ state.status = <<"Automation completed", "">>
  /\ state.completed = QuotaLevel1 + QuotaLevel2

\* the profiles of the run have pairwise distinct names, all of them keys of
\* profile_progress
DistinctKnownNames ==
  /\ profiles # <<>>
  /\ \A i, j \in DOMAIN profiles : i # j => profiles[i].name # profiles[j].name
  /\ \A i \in DOMAIN profiles : profiles[i].name \in DOMAIN state.profile_progress

\* the sum of profile_progress[p].done over the profiles ps[i..]
RECURSIVE SumDone(_, _)
SumDone(ps, i) ==
  IF i > Len(ps) THEN 0
  ELSE state.profile_progress[ps[i].name].done + SumDone(ps, i + 1)

TeardownEntered == pc = "td" /\ ti = 1 /\ browser_processes # <<>>

\* C30 (as claimed): once the worker has entered the teardown with tracked
\* handles it reaches is_running = false, whatever is_paused is and without a
\* further control request
C30_TeardownCompletes == TeardownEntered ~> ~state.is_running

\* the worker has moved on from the profile whose mobile pass it ran: it is at
\* the profile loop, at the next profile's first step, or in teardown
MovedOn == pc \in {"loop", "open"} \cup TeardownPcs

\* C31 (as claimed): when the worker has moved on from a profile, every
\* runtime, browser and context acquired while opening a MobileSearcher for it
\* has had its release attempted
C31_NoLeakedResource == MovedOn => ms_open = {}

\* queries of the current profile were left unperformed: its desktop pass set
\* fewer queries than its quota, or its mobile pass, once begun, set fewer than
\* MOBILE_SEARCH_COUNT
QueriesLeft ==
  \/ Len(issued) < desktop_total
  \/ mobile_path # "none" /\ Len(m_issued) < MOBILE_SEARCH_COUNT

\* C32 (as claimed): a run that was stopped with queries left to perform ends
\* with the status "Automation stopped" (stated for the runs whose current
\* profile is a key of profile_progress)
C32_StoppedReported ==
  (WorkerFinished /\ stop_seen /\ QueriesLeft /\ name \in DOMAIN state.profile_progress)
    => state.status = <<"Automation stopped", "">>

\* the positions of a mobile query: from the write of current_search to the
\* pause that follows the counter
MobileQueryPcs ==
  {"pw_set", "pw_search", "pw_count", "pw_sleep", "fb_set", "fb_act1", "fb_act2", "fb_act3",
   "fb_act4", "fb_sl1", "fb_sl2", "fb_sl3", "fb_count", "fb_sleep"}

\* C33: every step of a mobile pass (Playwright session or UA-window fallback)
\* leaves completed, total, progress and every entry of profile_progress
\* unchanged; the steps of a mobile query change nothing of the run state but
\* mobile_progress[profile].done, current_search and status.
C33_DesktopOnlyTotals ==
  /\ [][ (InMobilePass /\ pc' # pc) =>
           /\ state'.completed = state.completed
           /\ state'.total = state.total
           /\ state'.progress = state.progress
           /\ state'.profile_progress = state.profile_progress
           /\ completed' = completed ]_vars
  /\ [][ (pc \in MobileQueryPcs /\ pc' # pc) =>
           /\ state' = [state EXCEPT !.mobile_progress = state'.mobile_progress,
                                     !.current_search = state'.current_search,
                                     !.status = state'.status]
           /\ DOMAIN state'.mobile_progress = DOMAIN state.mobile_progress
           /\ \A n \in DOMAIN state.mobile_progress :
                /\ state'.mobile_progress[n].total = state.mobile_progress[n].total
                /\ n # name => state'.mobile_progress[n] = state.mobile_progress[n] ]_vars

\* the first mobile query of a level-2 profile was counted in the fallback
\* window; the desktop counters stand at the desktop quota
C33_Witness ==
  /\ pc = "fb_sleep"
  /\ pidx = 1
  /\ name = "B"
  /\ state.is_running
  /\ state.mobile_progress["B"].done = 1
  /\ state.completed = QuotaLevel2
  /\ state.total = QuotaLevel2
  /\ state.progress = <<100 * QuotaLevel2, QuotaLevel2>>
  /\ state.profile_progress["B"].done = QuotaLevel2

====
